---- MODULE Spec2Model ----
(***************************************************************************)
(* rl-cli, src/rl_cli/main.py: the `devbox ssh` flow (devbox_ssh) together  *)
(* with the environment selection (base_url, ssh_url) and the process       *)
(* boundary (run, main).                                                    *)
(*                                                                          *)
(* One CLI invocation is one operating-system process.  Procs are the       *)
(* process slots that may be alive at the same time; a slot is freed when   *)
(* its process exits and may then host a later invocation.  The local       *)
(* filesystem (the key directory and the key files) is shared by all        *)
(* invocations and outlives them.                                           *)
(***************************************************************************)
EXTENDS Integers, Sequences, FiniteSets, TLC

VARIABLES
    env,        \* value of RUNLOOP_ENV seen by the invocations
    umask,      \* file mode creation mask of the invocations
    fs,         \* [dir: ~/.runloop/ssh_keys exists, files: path -> file]
    started,    \* number of invocations started so far
    pc,         \* slot -> position of its invocation in run/devbox_ssh
    args,       \* slot -> parsed command line (--id, --config-only)
    result,     \* slot -> credential bundle returned by line 184
    stdout,     \* slot -> what the invocation has printed
    spawned,    \* slot -> subprocess command lines launched
    subExit,    \* slot -> exit code of the ssh subprocess (NoCode: none)
    exitCode,   \* slot -> exit code of the invocation (NoCode: running)
    calls,      \* slot -> remote control-plane calls issued, in order
    log,        \* slot -> steps attempted, in order (history)
    failedAt,   \* slot -> the step that raised ("" when none)
    before,     \* slot -> filesystem as it was when the invocation started
    used        \* slot -> key file as it was when the stanza was printed
                \*         or ssh was launched (history)

procVars == <<pc, args, result, stdout, spawned, subExit, exitCode, calls,
              log, failedAt, before, used>>
vars == <<env, umask, fs, started, procVars>>

----------------------------------------------------------------------------
(* Bounds *)

\* invocations started in one behaviour
MaxRuns == 2

\* process slots: up to two invocations alive at the same time
Procs == {1, 2}
\* the slot used when invocations run one after the other
SeqProcs == {1}

Ids == {"box-1", "box-2"}
Keys == {"key-a", "key-b"}
ExitCodes == {0, 1, 255}
NoCode == 0 - 1

----------------------------------------------------------------------------
(* File modes *)

Oct(u, g, o) == u * 64 + g * 8 + o

\* os.chmod(keyfile_path, 0o600)
KeyFileMode == 384

\* mode argument of open(2) as issued by Python's open(path, "w")
DefaultCreateMode == Oct(6, 6, 6)

RECURSIVE BitAnd(_, _)
BitAnd(a, b) ==
    IF a = 0 \/ b = 0 THEN 0
    ELSE (a % 2) * (b % 2) + 2 * BitAnd(a \div 2, b \div 2)

\* mode of a file created under mask m
Masked(mode, m) == mode - BitAnd(mode, m)

OwnerOnly(mode) == mode % 64 = 0

Umasks == {Oct(0, 2, 2), Oct(0, 7, 7)}

----------------------------------------------------------------------------
(* RUNLOOP_ENV, base_url(), ssh_url() *)

\* a string is a tuple of characters, so that lower() is computed
Unset == [set |-> FALSE, val |-> <<>>]
Str(s) == [set |-> TRUE, val |-> s]

EnvValues == {Unset, Str(<<"d", "e", "v">>), Str(<<"D", "E", "V">>),
              Str(<<"D", "e", "v">>), Str(<<"p", "r", "o", "d">>)}

LowerChar(c) ==
    CASE c = "D" -> "d"
      [] c = "E" -> "e"
      [] c = "V" -> "v"
      [] OTHER -> c

lower(s) == [i \in DOMAIN s |-> LowerChar(s[i])]

dev == <<"d", "e", "v">>

base_url(e) ==
    IF e.set /\ e.val # <<>> /\ lower(e.val) = dev
    THEN "https://api.runloop.pro"
    ELSE "https://api.runloop.ai"

\* the line base_url() prints
base_url_banner(e) ==
    IF e.set /\ e.val # <<>> /\ lower(e.val) = dev
    THEN [kind |-> "banner", text |-> "Using dev environment"]
    ELSE [kind |-> "banner", text |-> "Using prod environment"]

ssh_url(e) ==
    IF e.set /\ e.val = dev THEN "ssh.runloop.pro:443"
    ELSE "ssh.runloop.ai:443"

\* the environment a host belongs to
HostEnv(h) ==
    IF h \in {"https://api.runloop.pro", "ssh.runloop.pro:443"}
    THEN "dev" ELSE "prod"

----------------------------------------------------------------------------
(* Filesystem *)

KeyDir == "~/.runloop/ssh_keys"

keyfile_path(id) == <<KeyDir, id, ".pem">>

Paths == {keyfile_path(i) : i \in Ids}

NoFile == [exists |-> FALSE, content |-> <<>>, mode |-> 0]
File(c, m) == [exists |-> TRUE, content |-> c, mode |-> m]

\* what earlier sessions may have left at a key file path; content is a
\* sequence of equal-sized blocks, a key filling one block
Residue == {NoFile} \cup
           {File(<<"stale", "stale">>, m) : m \in {Oct(6, 4, 4), Oct(4, 4, 4)}}

NoFs == [dir |-> FALSE, files |-> [q \in Paths |-> NoFile]]

InitFs == {NoFs} \cup
          {[dir |-> TRUE, files |-> f] : f \in [Paths -> Residue]}

----------------------------------------------------------------------------
(* The remote control plane (rl_cli/runloop_client.py and the API client   *)
(* library are not part of src/): a call either returns or raises.         *)

Endpoint(id) == <<id, ".ssh.example:443">>

\* RunloopClient.devbox_create_ssh_key(id): a credential bundle, or an error
devbox_create_ssh_key(id) ==
    {[ok |-> TRUE, ssh_private_key |-> k, url |-> Endpoint(id)] : k \in Keys}
    \cup {[ok |-> FALSE, ssh_private_key |-> "", url |-> <<>>]}

NoArgs == [id |-> "", config_only |-> FALSE]
NoResult == [ssh_private_key |-> "", url |-> <<>>]
NoUse == [at |-> "none", file |-> NoFile, pending |-> {}]

----------------------------------------------------------------------------
(* Pieces of devbox_ssh *)

\* mutant: the file is opened without truncation ("r+"-like)
OpenW_noTrunc(f, m) ==
    IF f.exists THEN f ELSE File(<<>>, Masked(DefaultCreateMode, m))

\* open(keyfile_path, "w"): truncate, or create under the umask
OpenW(f, m) ==
    IF f.exists THEN [f EXCEPT !.content = <<>>]
    ELSE File(<<>>, Masked(DefaultCreateMode, m))

\* mutant: the file is opened for appending
WriteKeyTo_append(f, key) == [f EXCEPT !.content = Append(f.content, key)]

\* f.write(key) and the close that flushes it: the key lands at offset 0
\* of the file as it is then, and what lies beyond it stays
WriteKeyTo(f, key) ==
    [f EXCEPT !.content = <<key>> \o SubSeq(f.content, 2, Len(f.content))]

\* mutant: the chmod is forgotten
ChmodFile_noop(f) == f

\* os.chmod(keyfile_path, 0o600)
ChmodFile(f) == [f EXCEPT !.mode = KeyFileMode]

proxy_command(e) ==
    [tool |-> "openssl s_client", servername |-> "%h", connect |-> ssh_url(e)]

\* mutant: endpoint and key file path are interpolated the wrong way round
Stanza_swapped(id, url, path, e) ==
    [kind |-> "stanza", Host |-> id, Hostname |-> path, User |-> "user",
     IdentityFile |-> url, StrictHostKeyChecking |-> "no",
     ProxyCommand |-> proxy_command(e)]

\* the text printed under --config-only
Stanza(id, url, path, e) ==
    [kind |-> "stanza", Host |-> id, Hostname |-> url, User |-> "user",
     IdentityFile |-> path, StrictHostKeyChecking |-> "no",
     ProxyCommand |-> proxy_command(e)]

\* the argument vector handed to subprocess.run
command(url, path, e) ==
    [argv0 |-> "/usr/bin/ssh", i |-> path, ProxyCommand |-> proxy_command(e),
     StrictHostKeyChecking |-> "no", target |-> <<"user@", url>>]

\* exit status of the interpreter when run() returns normally
NormalExit(sub) == 0

\* exit status of the interpreter on an uncaught exception
UncaughtExit == 1

----------------------------------------------------------------------------
(* Steps of one invocation *)

Raise(p, step) ==
    /\ pc' = [pc EXCEPT ![p] = "fatal"]
    /\ failedAt' = [failedAt EXCEPT ![p] = step]
    /\ exitCode' = [exitCode EXCEPT ![p] = UncaughtExit]

Goto(p, next) ==
    /\ pc' = [pc EXCEPT ![p] = next]
    /\ UNCHANGED <<failedAt, exitCode>>

Attempt(p, step) == log' = [log EXCEPT ![p] = Append(@, step)]

Path(p) == keyfile_path(args[p].id)

SetFile(path, f) == fs' = [fs EXCEPT !.files[path] = f]

\* run(): the API key check, then argparse and dispatch to devbox_ssh
Run(p) ==
    /\ pc[p] = "idle"
    /\ started < MaxRuns
    /\ started' = started + 1
    /\ \E keySet \in BOOLEAN, id \in Ids, cfg \in BOOLEAN :
         IF ~keySet
         THEN /\ Raise(p, "run")
              /\ UNCHANGED <<args, before>>
         ELSE /\ Goto(p, "call_key")
              /\ args' = [args EXCEPT ![p] = [id |-> id, config_only |-> cfg]]
              /\ before' = [before EXCEPT ![p] = fs]
    /\ UNCHANGED <<env, umask, fs, result, stdout, spawned, subExit, calls,
                   log, used>>

\* mutant: the key directory is created before the credential request
CallCreateSshKey_mkdirFirst(p) ==
    /\ pc[p] = "call_key"
    /\ Goto(p, "await_key")
    /\ fs' = [fs EXCEPT !.dir = TRUE]
    /\ stdout' = [stdout EXCEPT ![p] = Append(@, base_url_banner(env))]
    /\ calls' = [calls EXCEPT ![p] = Append(@,
                   [op |-> "devbox_create_ssh_key", base |-> base_url(env),
                    id |-> args[p].id])]
    /\ Attempt(p, "fetch")
    /\ UNCHANGED <<env, umask, started, args, result, spawned, subExit,
                   before, used>>

\* line 184, the call: runloop_client() is built (base_url() prints) and
\* the credential request is sent
CallCreateSshKey(p) ==
    /\ pc[p] = "call_key"
    /\ Goto(p, "await_key")
    /\ stdout' = [stdout EXCEPT ![p] = Append(@, base_url_banner(env))]
    /\ calls' = [calls EXCEPT ![p] = Append(@,
                   [op |-> "devbox_create_ssh_key", base |-> base_url(env),
                    id |-> args[p].id])]
    /\ Attempt(p, "fetch")
    /\ UNCHANGED <<env, umask, fs, started, args, result, spawned, subExit,
                   before, used>>

\* mutant: a failed credential request is sent again
ReturnCreateSshKey_retry(p) ==
    /\ pc[p] = "await_key"
    /\ \E r \in devbox_create_ssh_key(args[p].id) :
         IF r.ok
         THEN /\ Goto(p, "call_create")
              /\ result' = [result EXCEPT ![p] =
                   [ssh_private_key |-> r.ssh_private_key, url |-> r.url]]
         ELSE /\ Goto(p, "call_key")
              /\ UNCHANGED result
    /\ UNCHANGED <<env, umask, fs, started, args, stdout, spawned, subExit,
                   calls, log, before, used>>

\* line 184, the await completes: a bundle, or the error propagates
ReturnCreateSshKey(p) ==
    /\ pc[p] = "await_key"
    /\ \E r \in devbox_create_ssh_key(args[p].id) :
         IF r.ok
         THEN /\ Goto(p, "call_create")
              /\ result' = [result EXCEPT ![p] =
                   [ssh_private_key |-> r.ssh_private_key, url |-> r.url]]
         ELSE /\ Raise(p, "fetch")
              /\ UNCHANGED result
    /\ UNCHANGED <<env, umask, fs, started, args, stdout, spawned, subExit,
                   calls, log, before, used>>

\* line 185, the call: runloop_api_client() is built (base_url() prints
\* again) and devboxes.create() is sent
CallDevboxesCreate(p) ==
    /\ pc[p] = "call_create"
    /\ Goto(p, "await_create")
    /\ stdout' = [stdout EXCEPT ![p] = Append(@, base_url_banner(env))]
    /\ calls' = [calls EXCEPT ![p] = Append(@,
                   [op |-> "devboxes.create", base |-> base_url(env),
                    id |-> ""])]
    /\ Attempt(p, "create")
    /\ UNCHANGED <<env, umask, fs, started, args, result, spawned, subExit,
                   before, used>>

\* line 185, the await completes; its value is dropped
ReturnDevboxesCreate(p) ==
    /\ pc[p] = "await_create"
    /\ \E ok \in BOOLEAN :
         IF ok THEN Goto(p, "makedirs") ELSE Raise(p, "create")
    /\ UNCHANGED <<env, umask, fs, started, args, result, stdout, spawned,
                   subExit, calls, log, before, used>>

\* line 189: os.makedirs(..., exist_ok=True)
Makedirs(p) ==
    /\ pc[p] = "makedirs"
    /\ Attempt(p, "makedirs")
    /\ \E ok \in BOOLEAN :
         IF ok
         THEN /\ Goto(p, "open")
              /\ fs' = [fs EXCEPT !.dir = TRUE]
         ELSE /\ Raise(p, "makedirs")
              /\ UNCHANGED fs
    /\ UNCHANGED <<env, umask, started, args, result, stdout, spawned,
                   subExit, calls, before, used>>

\* lines 190-191: open(keyfile_path, "w")
OpenKeyfile(p) ==
    /\ pc[p] = "open"
    /\ Attempt(p, "open")
    /\ \E ok \in BOOLEAN :
         IF ok /\ fs.dir
         THEN /\ Goto(p, "write")
              /\ SetFile(Path(p), OpenW(fs.files[Path(p)], umask))
         ELSE /\ Raise(p, "open")
              /\ UNCHANGED fs
    /\ UNCHANGED <<env, umask, started, args, result, stdout, spawned,
                   subExit, calls, before, used>>

\* line 192 and the end of the with block: the key reaches the file
WriteKey(p) ==
    /\ pc[p] = "write"
    /\ Attempt(p, "write")
    /\ \E ok \in BOOLEAN :
         IF ok
         THEN /\ Goto(p, "chmod")
              /\ SetFile(Path(p),
                         WriteKeyTo(fs.files[Path(p)], result[p].ssh_private_key))
         ELSE /\ Raise(p, "write")
              /\ UNCHANGED fs
    /\ UNCHANGED <<env, umask, started, args, result, stdout, spawned,
                   subExit, calls, before, used>>

\* line 193: os.chmod(keyfile_path, 0o600)
Chmod(p) ==
    /\ pc[p] = "chmod"
    /\ Attempt(p, "chmod")
    /\ \E ok \in BOOLEAN :
         IF ok
         THEN /\ Goto(p, "act")
              /\ SetFile(Path(p), ChmodFile(fs.files[Path(p)]))
         ELSE /\ Raise(p, "chmod")
              /\ UNCHANGED fs
    /\ UNCHANGED <<env, umask, started, args, result, stdout, spawned,
                   subExit, calls, before, used>>

\* the key file as the stanza's reader or ssh finds it
Snapshot(p, how) ==
    [at |-> how, file |-> fs.files[Path(p)],
     pending |-> {q \in Procs \ {p} :
                    args[q].id = args[p].id /\ pc[q] = "chmod"}]

\* lines 195-206: print the stanza and return; run() and main() return
PrintConfig(p) ==
    /\ pc[p] = "act"
    /\ args[p].config_only
    /\ Attempt(p, "print")
    /\ stdout' = [stdout EXCEPT ![p] = Append(@,
                    Stanza(args[p].id, result[p].url, Path(p), env))]
    /\ used' = [used EXCEPT ![p] = Snapshot(p, "print")]
    /\ pc' = [pc EXCEPT ![p] = "done"]
    /\ exitCode' = [exitCode EXCEPT ![p] = NormalExit(subExit[p])]
    /\ UNCHANGED <<env, umask, fs, started, args, result, spawned, subExit,
                   calls, failedAt, before>>

\* mutant: ssh is launched as soon as the key is written, before the chmod
SpawnSsh_beforeChmod(p) ==
    /\ pc[p] = "chmod"
    /\ ~args[p].config_only
    /\ Attempt(p, "spawn")
    /\ Goto(p, "wait")
    /\ spawned' = [spawned EXCEPT ![p] = Append(@,
                     command(result[p].url, Path(p), env))]
    /\ used' = [used EXCEPT ![p] = Snapshot(p, "spawn")]
    /\ UNCHANGED <<env, umask, fs, started, args, result, stdout, subExit,
                   calls, before>>

\* lines 207-218: subprocess.run launches /usr/bin/ssh, or raises
SpawnSsh(p) ==
    /\ pc[p] = "act"
    /\ ~args[p].config_only
    /\ Attempt(p, "spawn")
    /\ \E ok \in BOOLEAN :
         IF ok
         THEN /\ Goto(p, "wait")
              /\ spawned' = [spawned EXCEPT ![p] = Append(@,
                               command(result[p].url, Path(p), env))]
              /\ used' = [used EXCEPT ![p] = Snapshot(p, "spawn")]
         ELSE /\ Raise(p, "spawn")
              /\ UNCHANGED <<spawned, used>>
    /\ UNCHANGED <<env, umask, fs, started, args, result, stdout, subExit,
                   calls, before>>

\* line 218 returns when ssh exits (its CompletedProcess is dropped), then
\* devbox_ssh, run() and main() return
SshExits(p) ==
    /\ pc[p] = "wait"
    /\ \E c \in ExitCodes :
         /\ subExit' = [subExit EXCEPT ![p] = c]
         /\ exitCode' = [exitCode EXCEPT ![p] = NormalExit(c)]
    /\ pc' = [pc EXCEPT ![p] = "done"]
    /\ UNCHANGED <<env, umask, fs, started, args, result, stdout, spawned,
                   calls, log, failedAt, before, used>>

\* the process is gone; its slot may host the next invocation
Exit(p) ==
    /\ pc[p] \in {"done", "fatal"}
    /\ pc' = [pc EXCEPT ![p] = "idle"]
    /\ args' = [args EXCEPT ![p] = NoArgs]
    /\ result' = [result EXCEPT ![p] = NoResult]
    /\ stdout' = [stdout EXCEPT ![p] = <<>>]
    /\ spawned' = [spawned EXCEPT ![p] = <<>>]
    /\ subExit' = [subExit EXCEPT ![p] = NoCode]
    /\ exitCode' = [exitCode EXCEPT ![p] = NoCode]
    /\ calls' = [calls EXCEPT ![p] = <<>>]
    /\ log' = [log EXCEPT ![p] = <<>>]
    /\ failedAt' = [failedAt EXCEPT ![p] = ""]
    /\ before' = [before EXCEPT ![p] = NoFs]
    /\ used' = [used EXCEPT ![p] = NoUse]
    /\ UNCHANGED <<env, umask, fs, started>>

Step(p) ==
    \/ Run(p)
    \/ CallCreateSshKey(p)
    \/ ReturnCreateSshKey(p)
    \/ CallDevboxesCreate(p)
    \/ ReturnDevboxesCreate(p)
    \/ Makedirs(p)
    \/ OpenKeyfile(p)
    \/ WriteKey(p)
    \/ Chmod(p)
    \/ PrintConfig(p)
    \/ SpawnSsh(p)
    \/ SshExits(p)
    \/ Exit(p)

----------------------------------------------------------------------------
(* Specifications *)

InitProcs ==
    /\ started = 0
    /\ pc = [p \in Procs |-> "idle"]
    /\ args = [p \in Procs |-> NoArgs]
    /\ result = [p \in Procs |-> NoResult]
    /\ stdout = [p \in Procs |-> <<>>]
    /\ spawned = [p \in Procs |-> <<>>]
    /\ subExit = [p \in Procs |-> NoCode]
    /\ exitCode = [p \in Procs |-> NoCode]
    /\ calls = [p \in Procs |-> <<>>]
    /\ log = [p \in Procs |-> <<>>]
    /\ failedAt = [p \in Procs |-> ""]
    /\ before = [p \in Procs |-> NoFs]
    /\ used = [p \in Procs |-> NoUse]

\* invocations one after the other, from any environment and any residue
Init ==
    /\ env \in EnvValues
    /\ umask \in Umasks
    /\ fs \in InitFs
    /\ InitProcs

Next == \E p \in SeqProcs : Step(p)

Spec == Init /\ [][Next]_vars

\* invocations that may overlap, on a fresh key directory
InitConc ==
    /\ env = Unset
    /\ umask = Oct(0, 2, 2)
    /\ fs = NoFs
    /\ InitProcs

NextConc == \E p \in Procs : Step(p)

SpecConc == InitConc /\ [][NextConc]_vars

----------------------------------------------------------------------------
(* Properties *)

KeyFile(p) == fs.files[<<KeyDir, args[p].id, ".pem">>]
KeyOf(p) == result[p].ssh_private_key
Stanzas(p) == SelectSeq(stdout[p], LAMBDA x : x.kind = "stanza")
IsPrefix(s, t) == Len(s) <= Len(t) /\ s = SubSeq(t, 1, Len(s))
Count(s, x) == Cardinality({i \in DOMAIN s : s[i] = x})

\* C1: after a successful run (with or without --config-only) the key file
\* exists at ~/.runloop/ssh_keys/<id>.pem, holds exactly the key the
\* credential call returned, and has mode 0600 with no group/other bits.
C1_KeyFileAfterSuccess ==
    \A p \in Procs :
        pc[p] = "done" =>
            /\ fs.dir
            /\ KeyFile(p).exists
            /\ KeyFile(p).content = <<KeyOf(p)>>
            /\ KeyFile(p).mode = Oct(6, 0, 0)
            /\ OwnerOnly(KeyFile(p).mode)

\* a successful run that created the file with group/other bits set
C1_Witness ==
    \E p \in Procs :
        /\ pc[p] = "done"
        /\ ~before[p].dir
        /\ ~OwnerOnly(Masked(DefaultCreateMode, umask))
        /\ KeyFile(p).content = <<KeyOf(p)>>

\* C2: when the credential lookup fails the flow aborts before any file
\* write: key directory and key files are as they were at the start, no
\* stanza is printed, no subprocess is spawned, no later step is attempted.
C2_LookupFailureWritesNothing ==
    \A p \in Procs :
        (pc[p] = "fatal" /\ failedAt[p] = "fetch") =>
            /\ fs = before[p]
            /\ Stanzas(p) = <<>>
            /\ spawned[p] = <<>>
            /\ log[p] = <<"fetch">>

\* a failed lookup on a machine without the key directory
C2_Witness ==
    \E p \in Procs :
        /\ pc[p] = "fatal"
        /\ failedAt[p] = "fetch"
        /\ ~before[p].dir
        /\ ~fs.dir

\* C3: without --config-only a finished invocation has spawned exactly one
\* ssh subprocess (-i keyfile, ProxyCommand, user@endpoint), has waited for
\* it, and reports the subprocess's exit code as its own.
C3_ExitCodePropagated ==
    \A p \in Procs :
        (pc[p] = "done" /\ ~args[p].config_only) =>
            /\ Len(spawned[p]) = 1
            /\ spawned[p][1].i = <<KeyDir, args[p].id, ".pem">>
            /\ spawned[p][1].target = <<"user@", result[p].url>>
            /\ subExit[p] \in ExitCodes
            /\ exitCode[p] = subExit[p]

\* C4: with --config-only the flow never spawns a subprocess, and when it
\* returns it has printed one stanza with Host = id, Hostname = resolved
\* endpoint, IdentityFile = the key file path, ProxyCommand dialling the
\* gateway, and the exit code is zero.
C4_ConfigOnly ==
    \A p \in Procs :
        args[p].config_only =>
            /\ spawned[p] = <<>>
            /\ pc[p] # "wait"
            /\ subExit[p] = NoCode
            /\ pc[p] = "done" =>
                 /\ exitCode[p] = 0
                 /\ Len(Stanzas(p)) = 1
                 /\ Stanzas(p)[1].Host = args[p].id
                 /\ Stanzas(p)[1].Hostname = Endpoint(args[p].id)
                 /\ Stanzas(p)[1].Hostname = result[p].url
                 /\ Stanzas(p)[1].IdentityFile = <<KeyDir, args[p].id, ".pem">>
                 /\ Stanzas(p)[1].ProxyCommand.connect
                        \in {"ssh.runloop.ai:443", "ssh.runloop.pro:443"}
                 /\ Stanzas(p)[1].ProxyCommand.connect = ssh_url(env)

\* a --config-only run that has returned
C4_Witness ==
    \E p \in Procs :
        /\ pc[p] = "done"
        /\ args[p].config_only
        /\ Len(Stanzas(p)) = 1

\* C5: one invocation makes exactly one remote call, the credential
\* request; never a second one.
C5_OneRemoteCall ==
    \A p \in Procs :
        /\ Len(calls[p]) <= 1
        /\ \A i \in DOMAIN calls[p] : calls[p][i].op = "devbox_create_ssh_key"
        /\ pc[p] = "done" => Len(calls[p]) = 1

\* C6: a run over a key file that is already there overwrites it: after
\* the run the file holds this run's key alone and has mode 0600, whatever
\* content and permission bits it had before.
C6_Overwrite ==
    \A p \in Procs :
        (pc[p] = "done" /\ before[p].files[Path(p)].exists) =>
            /\ KeyFile(p).content = <<KeyOf(p)>>
            /\ KeyFile(p).mode = KeyFileMode

\* the second run for an id, over the first run's residue: another key,
\* group/other bits still set
C6_Witness ==
    \E p \in Procs :
        /\ pc[p] = "done"
        /\ started = 2
        /\ before[p].files[Path(p)].exists
        /\ \E k \in Keys \ {KeyOf(p)} : before[p].files[Path(p)].content = <<k>>
        /\ ~OwnerOnly(before[p].files[Path(p)].mode)
        /\ KeyFile(p).content = <<KeyOf(p)>>

ActSteps == {"print", "spawn"}
Order(last) ==
    <<"fetch", "create", "makedirs", "open", "write", "chmod", last>>

\* C7: within one invocation the steps are attempted in the order fetch,
\* ensure directory, write, chmod, act; when the stanza is printed or ssh
\* is launched the key file is written and has no group/other bits.
C7_RestrictBeforeUse ==
    \A p \in Procs :
        /\ \E last \in ActSteps : IsPrefix(log[p], Order(last))
        /\ used[p].at # "none" =>
             /\ used[p].file.exists
             /\ used[p].file.content = <<KeyOf(p)>>
             /\ OwnerOnly(used[p].file.mode)

\* ssh launched on a key file that was created with group/other bits
C7_Witness ==
    \E p \in Procs :
        /\ used[p].at = "spawn"
        /\ ~before[p].files[Path(p)].exists
        /\ ~OwnerOnly(Masked(DefaultCreateMode, umask))

\* C8: overlapping invocations for one id are not kept apart.  What every
\* interleaving keeps: at the moment of use the key file exists with mode
\* 0600 and holds one key or nothing, and it holds something else than the
\* user's own key only when another invocation has been started.
C8_RaceOutcome ==
    \A p \in Procs :
        used[p].at # "none" =>
            /\ used[p].file.exists
            /\ used[p].file.mode = KeyFileMode
            /\ used[p].file.content \in {<<>>} \cup {<<k>> : k \in Keys}
            /\ used[p].file.content # <<KeyOf(p)>> => started >= 2
            /\ used[p].pending # {} => started >= 2

\* the race: an invocation prints or launches ssh while the key file holds
\* the key another invocation fetched, that invocation having rewritten
\* the file and not yet applied its chmod
C8_Witness ==
    \E p \in Procs : \E q \in Procs \ {p} :
        /\ used[p].at # "none"
        /\ q \in used[p].pending
        /\ KeyOf(q) # KeyOf(p)
        /\ used[p].file.content = <<KeyOf(q)>>

Steps == {"fetch", "create", "makedirs", "open", "write", "chmod",
          "print", "spawn"}

\* C9: no step is attempted twice, and a failure is terminal: the failed
\* step is the last one attempted and the invocation is in its fatal end.
C9_NoRetryFatal ==
    \A p \in Procs :
        /\ \A st \in Steps : Count(log[p], st) <= 1
        /\ Len(calls[p]) <= Count(log[p], "fetch") + Count(log[p], "create")
        /\ Len(spawned[p]) <= Count(log[p], "spawn")
        /\ (pc[p] = "fatal") <=> (failedAt[p] # "")
        /\ failedAt[p] # "" =>
             /\ exitCode[p] = UncaughtExit
             /\ failedAt[p] # "run" => log[p][Len(log[p])] = failedAt[p]
             /\ failedAt[p] \in {"fetch", "create", "makedirs", "open"}
                    => fs.files = before[p].files
             /\ failedAt[p] # "spawn" => spawned[p] = <<>>
             /\ Stanzas(p) = <<>>

\* the write failed after the file was opened: no chmod, nothing launched
C9_Witness ==
    \E p \in Procs :
        /\ pc[p] = "fatal"
        /\ failedAt[p] = "write"
        /\ log[p] = <<"fetch", "create", "makedirs", "open", "write">>

\* C10: the API base URL and the ssh gateway an invocation uses belong to
\* the same environment, for every value of RUNLOOP_ENV.
C10_SameEnvironment ==
    \A p \in Procs :
        \A i \in DOMAIN calls[p] :
            /\ \A j \in DOMAIN spawned[p] :
                 HostEnv(calls[p][i].base)
                     = HostEnv(spawned[p][j].ProxyCommand.connect)
            /\ \A j \in DOMAIN Stanzas(p) :
                 HostEnv(calls[p][i].base)
                     = HostEnv(Stanzas(p)[j].ProxyCommand.connect)

====
